---- MODULE Spec2Model ----
(***************************************************************************)
(* Model of the concurrent upload engine of uploader.py: the chapter pool  *)
(* of main, the per-chapter retry loop of upload_chapter, the page pool    *)
(* inside one attempt, and the UIRenderer status map.                      *)
(*                                                                         *)
(* Chapters are numbered 1..n in the natural-sort order of their keys      *)
(* (sorted_keys; the dict chapters_to_upload is built in the same order).  *)
(* Progress fractions are kept in thousandths: 1.0 is 1000, 0.95 is 950.   *)
(***************************************************************************)
EXTENDS Integers, Sequences, FiniteSets, TLC

\* ------------------------------------------------------------- bounds
NumChapters == 1        \* chapters found by the scan (Spec)
MaxThreads == 2         \* thread_count values tried, 1..MaxThreads
MaxPages == 2           \* images per chapter, 1..MaxPages (Spec)
PoolPages == 9          \* images of the large chapter of SpecPool
ScanNameLen == 3        \* longest entry name of the directories of SpecScan
MaxFiles == 2           \* files in an entry of the directories of SpecScan
MaxNameLen == 5         \* longest chapter directory name of SpecNames
ViewChapters == 3       \* chapters of SpecView
MaxPageSize == 2        \* page_size values of SpecView, 1..MaxPageSize
ThreadPages == 2        \* images of the first chapter of SpecThreads

\* ------------------------------------------------- program constants
MAX_RETRIES == 3
RETRYABLE_STATUSES == {500, 502, 503, 504, 524}
PageWorkers == 8        \* ThreadPoolExecutor(max_workers=8)
InitialPageSize == 25   \* UIRenderer.__init__: self.page_size = 25
ThreadCountLimit == 10  \* get_thread_count accepts 1..10

\* HTTP error codes the remote service is let to answer with: the first and
\* the last retryable one and one that is not.
ErrorCodes == {500, 524, 404}

\* What e.response.json() makes of an error body:
\*   "dup"       a JSON object whose message holds "Chapter already exists"
\*   "plain"     a JSON object with another message, or none
\*   "notjson"   not JSON at all (JSONDecodeError, error_json stays {})
\*   "nonobject" valid JSON that is no object (a list, a string, null), or
\*               an object whose message is no string
ErrorBodies == {"dup", "plain", "notjson", "nonobject"}

VARIABLES
    root,                \* the directory given to find_chapters
    chapters,            \* main: chapters_to_upload
    service,             \* the answers the remote service gives in this run
    thread_count,        \* main: max_workers of the chapter pool
    numImages,           \* chapter -> len(chapter_info["image_paths"])
    submitted,           \* main: number of futures submitted so far
    mainpc,              \* main: "submitting", "collecting", "done" (the pool
                         \*       block has ended), "exited", "crashed"
    consumed,            \* main: chapters whose future as_completed has yielded
    failed_chapters,     \* main: list of failed keys
    skipped_chapters,    \* main: list of skipped keys
    failed_txt,          \* the lines of the file "failed.txt", or NoFile
    write_failed,        \* main: the except clause around the write was taken
    pc,                  \* chapter -> position of its upload_chapter call
    attempt,             \* chapter -> loop variable of upload_chapter
    dispatched,          \* chapter -> page tasks taken by a page thread
    inflight,            \* chapter -> page tasks running upload_image_to_s3
    successful_uploads,  \* chapter -> the closure counter of this attempt
    s3_urls,             \* chapter -> the local s3_urls of upload_chapter
    finalize_request,    \* chapter -> the add-chapter request in flight
    result,              \* chapter -> what its future holds
    status,              \* UIRenderer.status
    completed_chapters,  \* UIRenderer.completed_chapters
    view_start_index,    \* UIRenderer.view_start_index
    page_size,           \* UIRenderer.page_size
    fine,                \* whether the run is followed lock by lock (SpecThreads)
    lock,                \* the thread holding UIRenderer.lock, or NoThread
    upd,                 \* thread -> its call of update_chapter_status or of
                         \*           start under way, or Idle
    page,                \* chapter -> page -> position of its upload_image_to_s3
    upload_lock,         \* chapter -> the thread holding this attempt's upload_lock
    fail_order,          \* history: chapter -> the pages of this attempt that
                         \*          failed, in the order in which they failed
    shown,               \* history: chapter -> the k of the "Uploading (k/N)"
                         \*          updates of this attempt, as they were written
    starts,              \* history: chapter -> executions of upload_chapter begun
    sleeps,              \* history: chapter -> time.sleep(RETRY_DELAY) calls
    resp,                \* history: chapter -> last answer of the remote service
    everyFinalizeRetryable
                         \* history: chapter -> every attempt that has ended so
                         \*          far ended with a finalize answer carrying a
                         \*          retryable status code

vars == <<root, chapters, service, thread_count, numImages, submitted, mainpc, consumed, failed_chapters,
          skipped_chapters, failed_txt, write_failed, pc, attempt, dispatched, inflight,
          successful_uploads, s3_urls, page, upload_lock,
                   fail_order, shown, result, status, completed_chapters,
          view_start_index, page_size, fine, lock, upd, starts, sleeps, resp, finalize_request, everyFinalizeRetryable>>

Chapters == DOMAIN numImages
total_chapters == Cardinality(Chapters)

Min(a, b) == IF a < b THEN a ELSE b
Max(a, b) == IF a > b THEN a ELSE b

\* --------------------------------------------------------- UIRenderer
\* Status texts, without their variable parts: the "Retrying (a/3)... "
\* prefix, the (k/N) of "Uploading" and the code of "Server Error (code)"
\* are functions of attempt, progress and resp.
TerminalTexts == {"Done", "Skipped", "Failed"}
InProgressTexts == {"Requesting", "Uploading", "Finalizing",
                    "ServerErrorRetrying", "NetworkErrorRetrying"}

\* Mutant of check_and_scroll_view: the window turns to the next page.
check_and_scroll_view_next_page(st, view) ==
    LET end_index == Min(view + page_size, total_chapters)
        visible == {i \in 0..(total_chapters - 1) : view <= i /\ i < end_index}
        incomplete == {i \in 0..(total_chapters - 1) : st[i + 1].progress < 1000}
    IN  IF \A i \in visible : st[i + 1].progress = 1000
        THEN IF incomplete # {}
             THEN Min(view + page_size, total_chapters - 1)
             ELSE Max(0, total_chapters - page_size)
        ELSE view

\* _check_and_scroll_view, on the status map st: chapter i+1 is sorted_keys[i].
check_and_scroll_view(st, view) ==
    LET end_index == Min(view + page_size, total_chapters)
        visible == {i \in 0..(total_chapters - 1) : view <= i /\ i < end_index}
        incomplete == {i \in 0..(total_chapters - 1) : st[i + 1].progress < 1000}
    IN  IF \A i \in visible : st[i + 1].progress = 1000
        THEN IF incomplete # {}
             THEN CHOOSE i \in incomplete : \A j \in incomplete : i <= j
             ELSE Max(0, total_chapters - page_size)
        ELSE view

\* Threads: main, the thread of the chapter pool that runs upload_chapter for
\* chapter c, and the thread of its page pool that runs page i.
Main == <<"main", 0, 0>>
Worker(c) == <<"chapter", c, 0>>
PageThread(c, i) == <<"page", c, i>>
NoThread == <<"none", 0, 0>>
ThreadsOf(n) ==
    {Main} \cup {Worker(c) : c \in DOMAIN n}
           \cup UNION {{PageThread(c, i) : i \in 1..n[c]} : c \in DOMAIN n}

\* A call of update_chapter_status(c, text, progress) that waits for
\* self.lock; k is the page count of an "Uploading (k/N)" text.
Idle == [c |-> 0, text |-> "", progress |-> 0, k |-> 0, at |-> "idle"]
Call(c, text, progress, k) ==
    [c |-> c, text |-> text, progress |-> progress, k |-> k, at |-> "acquire"]
\* "with self.lock: self._render()" of start, waiting for self.lock
StartCall == [c |-> 0, text |-> "", progress |-> 0, k |-> 0, at |-> "start"]

\* The caller of update_chapter_status outside progress_callback: main writes
\* the final texts, upload_chapter the others.
Caller(c, text) == IF text \in TerminalTexts THEN Main ELSE Worker(c)

\* update_chapter_status(chap_key, status, progress): one critical section
\* of self.lock; every caller passes a progress.  In SpecThreads the caller
\* only makes the call here; Acquire, WriteText, WriteProgress and Render
\* carry it out, and the caller goes on when it has returned.
update_chapter_status(c, text, progress) ==
    IF fine
    THEN /\ upd' = [upd EXCEPT ![Caller(c, text)] = Call(c, text, progress, 0)]
         /\ UNCHANGED <<status, completed_chapters, view_start_index, page_size,
                        fine, lock>>
    ELSE LET st == [status EXCEPT ![c] = [status |-> text, progress |-> progress]]
         IN  /\ status' = st
             /\ IF st[c].progress = 1000
                THEN /\ completed_chapters' = completed_chapters + 1
                     /\ view_start_index' = check_and_scroll_view(st, view_start_index)
                ELSE UNCHANGED <<completed_chapters, view_start_index>>
             /\ UNCHANGED <<page_size, fine, lock, upd>>

RendererUnchanged ==
    UNCHANGED <<status, completed_chapters, view_start_index, page_size, fine,
                lock, upd>>

\* ----------------------------------------------- progress of an attempt
RequestingProgress == 0
\* Mutants of UploadingProgress: the fraction of pages still to do instead of
\* the fraction done; the fraction done without the 0.1 base and 0.8 scale.
UploadingProgressRemaining(k, n) == 100 + (800 * (n - k)) \div n
UploadingProgressUnscaled(k, n) == (1000 * k) \div n

\* 0.1 + (successful_uploads / num_images) * 0.8
UploadingProgress(k, n) == 100 + (800 * k) \div n
FinalizingProgress == 950
RetryProgress == 0
FinalProgress == 1000

\* ------------------------------------------------- the remote service
NoResp == [op |-> "none", kind |-> "none", code |-> 0, body |-> "none"]
\* Answers to session.post: a 2xx whose body parses to what the code reads
\* ("json") or does not ("notjson": response.json() or ['urls'] raises), an
\* HTTP error status with some body, or no answer at all (a transport error).
Answers ==
    {[kind |-> "ok", code |-> 200, body |-> b] : b \in {"json", "notjson"}}
    \cup {[kind |-> "http", code |-> k, body |-> b] : k \in ErrorCodes, b \in ErrorBodies}
    \cup {[kind |-> "neterr", code |-> 0, body |-> "none"]}

Answer(op, a) == [op |-> op, kind |-> a.kind, code |-> a.code, body |-> a.body]

\* ------------------------------------------------ results of a future
NoError == [class |-> "none", code |-> 0]
NoResult == [kind |-> "none", success |-> FALSE, skipped |-> FALSE, error |-> NoError]
Success == [kind |-> "value", success |-> TRUE, skipped |-> FALSE, error |-> NoError]
Skipped == [kind |-> "value", success |-> TRUE, skipped |-> TRUE, error |-> NoError]
Failure(class, code) ==
    [kind |-> "value", success |-> FALSE, skipped |-> FALSE,
     error |-> [class |-> class, code |-> code]]
\* an exception that left upload_chapter: future.result() raises it
Raised == [kind |-> "exception", success |-> FALSE, skipped |-> FALSE, error |-> NoError]

\* ------------------------------------------------------ upload_chapter
Active(c) == pc[c] \in {"requesting", "pages", "finalizing", "sleeping"}
Finished(c) == pc[c] \in {"returned", "raised"}

WorkerUnchanged ==
    UNCHANGED <<root, chapters, service, thread_count, numImages, submitted, mainpc, consumed,
                failed_chapters, skipped_chapters, failed_txt, write_failed,
                starts>>
PagesUnchanged == UNCHANGED <<dispatched, inflight, successful_uploads, s3_urls,
                             page, upload_lock, fail_order, shown>>

\* s3_urls before the first presign answer, and the list of n upload URLs
\* that the presign request of attempt a was answered with
NoUrls == [presign |-> 0, n |-> 0]
Urls(a, n) == [presign |-> a + 1, n |-> n]
\* no add-chapter request under way, and the one whose "images" are urls
NoRequest == [sent |-> FALSE, images |-> NoUrls]
FinalizeRequest(urls) == [sent |-> TRUE, images |-> urls]

\* A page task: its position in upload_image_to_s3 and progress_callback, and
\* the value of successful_uploads it has read.
Queued == [at |-> "queued", k |-> 0]

\* The locals of the page phase (successful_uploads and the page pool) are
\* gone when the call ends.
ClearPages(c) ==
    /\ dispatched' = [dispatched EXCEPT ![c] = 0]
    /\ inflight' = [inflight EXCEPT ![c] = 0]
    /\ successful_uploads' = [successful_uploads EXCEPT ![c] = 0]
    /\ s3_urls' = [s3_urls EXCEPT ![c] = NoUrls]
    /\ page' = [page EXCEPT ![c] = [i \in DOMAIN @ |-> Queued]]
    /\ upload_lock' = [upload_lock EXCEPT ![c] = NoThread]
    /\ UNCHANGED <<fail_order, shown>>

\* return {...}: the future of chapter c holds r
Return(c, r) ==
    /\ pc' = [pc EXCEPT ![c] = "returned"]
    /\ result' = [result EXCEPT ![c] = r]
    /\ ClearPages(c)

\* "attempt < MAX_RETRIES - 1" of both except clauses
AttemptsRemain(a) == a < MAX_RETRIES - 1

\* "e.response.status_code in RETRYABLE_STATUSES and attempt < MAX_RETRIES - 1"
ShouldRetryStatus(code, a) == code \in RETRYABLE_STATUSES /\ AttemptsRemain(a)

\* '"Chapter already exists" in error_json.get("message", "")'
IsDuplicate(body) == body = "dup"

\* update the status, time.sleep(RETRY_DELAY), continue
RetryAfter(c, text) ==
    /\ update_chapter_status(c, text, RetryProgress)
    /\ pc' = [pc EXCEPT ![c] = "sleeping"]
    /\ sleeps' = [sleeps EXCEPT ![c] = @ + 1]
    /\ UNCHANGED result
    /\ PagesUnchanged

\* Mutant of ExceptHTTPError: the retryable status is looked at before the
\* "Chapter already exists" message.
ExceptHTTPErrorStatusFirst(c, a) ==
    IF a.body = "nonobject"
    THEN /\ pc' = [pc EXCEPT ![c] = "raised"]
         /\ result' = [result EXCEPT ![c] = Raised]
         /\ ClearPages(c)
         /\ RendererUnchanged
         /\ UNCHANGED sleeps
    ELSE IF ShouldRetryStatus(a.code, attempt[c])
    THEN RetryAfter(c, "ServerErrorRetrying")
    ELSE IF IsDuplicate(a.body)
    THEN /\ Return(c, Skipped)
         /\ RendererUnchanged
         /\ UNCHANGED sleeps
    ELSE /\ Return(c, Failure("http", a.code))
         /\ RendererUnchanged
         /\ UNCHANGED sleeps

\* except requests.exceptions.HTTPError as e, for the error answer a.  A body
\* that is JSON but no object makes error_json.get raise inside the handler:
\* no except clause of the same try catches it and it leaves upload_chapter.
ExceptHTTPError(c, a) ==
    IF a.body = "nonobject"
    THEN /\ pc' = [pc EXCEPT ![c] = "raised"]
         /\ result' = [result EXCEPT ![c] = Raised]
         /\ ClearPages(c)
         /\ RendererUnchanged
         /\ UNCHANGED sleeps
    ELSE IF IsDuplicate(a.body)
    THEN /\ Return(c, Skipped)
         /\ RendererUnchanged
         /\ UNCHANGED sleeps
    ELSE IF ShouldRetryStatus(a.code, attempt[c])
    THEN RetryAfter(c, "ServerErrorRetrying")
    ELSE /\ Return(c, Failure("http", a.code))
         /\ RendererUnchanged
         /\ UNCHANGED sleeps

\* except Exception as e
ExceptException(c) ==
    IF AttemptsRemain(attempt[c])
    THEN RetryAfter(c, "NetworkErrorRetrying")
    ELSE /\ Return(c, Failure("exc", 0))
         /\ RendererUnchanged
         /\ UNCHANGED sleeps

\* The first statement of an iteration of "for attempt in range(MAX_RETRIES)".
BeginAttempt(c, a) ==
    /\ attempt' = [attempt EXCEPT ![c] = a]
    /\ update_chapter_status(c, "Requesting", RequestingProgress)
    /\ pc' = [pc EXCEPT ![c] = "requesting"]

\* Mutant of PoolHasFreeThread: one thread too many.
PoolHasFreeThreadOffByOne == Cardinality({d \in Chapters : Active(d)}) <= thread_count

\* A free thread of the chapter pool takes the oldest queued work item.
PoolHasFreeThread == Cardinality({d \in Chapters : Active(d)}) < thread_count

Start(c) ==
    /\ pc[c] = "queued"
    /\ c <= submitted
    /\ \A d \in Chapters : d < c => pc[d] # "queued"
    /\ PoolHasFreeThread
    /\ BeginAttempt(c, 0)
    /\ starts' = [starts EXCEPT ![c] = @ + 1]
    /\ UNCHANGED <<root, chapters, service, thread_count, numImages, submitted, mainpc,
                   consumed, failed_chapters, skipped_chapters, failed_txt,
                   write_failed, result, sleeps, resp, finalize_request, everyFinalizeRetryable>>
    /\ PagesUnchanged

\* session.post(".../presign") answers, and the code up to the page pool.
\* A "json" answer carries one upload URL per file of the payload.
Presign(c) ==
    /\ pc[c] = "requesting"
    /\ \E a \in service :
        /\ resp' = [resp EXCEPT ![c] = Answer("presign", a)]
        /\ everyFinalizeRetryable' = [everyFinalizeRetryable EXCEPT ![c] =
              IF a.kind = "ok" /\ a.body = "json" THEN @ ELSE FALSE]
        /\ IF a.kind = "ok" /\ a.body = "json"
           THEN /\ pc' = [pc EXCEPT ![c] = "pages"]
                /\ dispatched' = [dispatched EXCEPT ![c] = 0]
                /\ inflight' = [inflight EXCEPT ![c] = 0]
                /\ successful_uploads' = [successful_uploads EXCEPT ![c] = 0]
                /\ s3_urls' = [s3_urls EXCEPT ![c] = Urls(attempt[c], numImages[c])]
                /\ page' = [page EXCEPT ![c] = [i \in DOMAIN @ |-> Queued]]
                /\ upload_lock' = [upload_lock EXCEPT ![c] = NoThread]
                /\ fail_order' = [fail_order EXCEPT ![c] = <<>>]
                /\ shown' = [shown EXCEPT ![c] = <<>>]
                /\ RendererUnchanged
                /\ UNCHANGED <<result, sleeps>>
           ELSE IF a.kind = "http" THEN ExceptHTTPError(c, a) ELSE ExceptException(c)
    /\ UNCHANGED <<attempt, finalize_request>>
    /\ WorkerUnchanged

\* Mutant of PagePoolHasFreeThread: one thread too many.
PagePoolHasFreeThreadOffByOne(c) == inflight[c] <= PageWorkers

\* A thread of the page pool takes the next task of executor.map.
PagePoolHasFreeThread(c) == inflight[c] < PageWorkers

PageStart(c) ==
    /\ pc[c] = "pages"
    /\ dispatched[c] < numImages[c]
    /\ PagePoolHasFreeThread(c)
    /\ dispatched' = [dispatched EXCEPT ![c] = @ + 1]
    /\ inflight' = [inflight EXCEPT ![c] = @ + 1]
    /\ UNCHANGED <<pc, attempt, successful_uploads, s3_urls, page, upload_lock,
                   fail_order, shown, result, sleeps, resp, finalize_request,
                   everyFinalizeRetryable>>
    /\ RendererUnchanged
    /\ WorkerUnchanged

\* upload_image_to_s3 succeeds: progress_callback(), return (True, "")
PageSucceed(c) ==
    /\ pc[c] = "pages"
    /\ inflight[c] > 0
    /\ inflight' = [inflight EXCEPT ![c] = @ - 1]
    /\ successful_uploads' = [successful_uploads EXCEPT ![c] = @ + 1]
    /\ update_chapter_status(c, "Uploading",
                             UploadingProgress(successful_uploads[c] + 1, numImages[c]))
    /\ UNCHANGED <<pc, attempt, dispatched, s3_urls, page, upload_lock,
                   fail_order, shown, result, sleeps, resp, finalize_request,
                   everyFinalizeRetryable>>
    /\ WorkerUnchanged

\* upload_image_to_s3 fails: return (False, message)
PageFail(c) ==
    /\ pc[c] = "pages"
    /\ inflight[c] > 0
    /\ inflight' = [inflight EXCEPT ![c] = @ - 1]
    /\ UNCHANGED <<pc, attempt, dispatched, s3_urls, page, upload_lock,
                   fail_order, shown, successful_uploads, result, sleeps,
                   resp, finalize_request, everyFinalizeRetryable>>
    /\ RendererUnchanged
    /\ WorkerUnchanged

\* Mutant of first_error: the error of the page that failed first in time.
first_error_in_time(c) == IF fail_order[c] = <<>> THEN 0 ELSE Head(fail_order[c])

\* "first_error = next((res[1] for res in results if not res[0]), ...)": the
\* message of the first failure of the list results, which executor.map
\* returns in the order of the pages.  The message of page i is i; pages
\* without identity (Spec) all have the message 0.
first_error(c) ==
    LET failed == {i \in DOMAIN page[c] : page[c][i].at = "failed"}
    IN  IF failed = {} THEN 0 ELSE CHOOSE i \in failed : \A j \in failed : i <= j

\* What upload_chapter does with a list of results holding a failure.
PageFailureOutcome(c) ==
    /\ Return(c, Failure("page", first_error(c)))
    /\ RendererUnchanged

\* Mutant of AllPagesSucceeded: any() in the place of all().
AnyPageSucceeded(c) == successful_uploads[c] > 0

\* "all(res[0] for res in results)": every task returned (True, ""), each
\* after its progress_callback.
AllPagesSucceeded(c) == successful_uploads[c] = numImages[c]

\* The page pool has shut down: "if not all(res[0] for res in results)";
\* otherwise the status update, final_payload and the add-chapter request.
PagesDone(c) ==
    /\ pc[c] = "pages"
    /\ dispatched[c] = numImages[c]
    /\ inflight[c] = 0
    /\ IF ~AllPagesSucceeded(c)
       THEN /\ PageFailureOutcome(c)
            /\ everyFinalizeRetryable' = [everyFinalizeRetryable EXCEPT ![c] = FALSE]
            /\ UNCHANGED finalize_request
       ELSE /\ update_chapter_status(c, "Finalizing", FinalizingProgress)
            /\ finalize_request' = [finalize_request EXCEPT ![c] =
                                      FinalizeRequest(s3_urls[c])]
            /\ pc' = [pc EXCEPT ![c] = "finalizing"]
            /\ UNCHANGED <<result, everyFinalizeRetryable>>
            /\ PagesUnchanged
    /\ UNCHANGED <<attempt, sleeps, resp>>
    /\ WorkerUnchanged

\* session.post(".../add-chapter") answers.
Finalize(c) ==
    /\ pc[c] = "finalizing"
    /\ \E a \in service :
        /\ resp' = [resp EXCEPT ![c] = Answer("finalize", a)]
        /\ finalize_request' = [finalize_request EXCEPT ![c] = NoRequest]
        /\ everyFinalizeRetryable' = [everyFinalizeRetryable EXCEPT ![c] =
              @ /\ a.kind = "http" /\ a.code \in RETRYABLE_STATUSES]
        /\ IF a.kind = "ok" /\ a.body = "json"
           THEN /\ Return(c, Success)
                /\ RendererUnchanged
                /\ UNCHANGED sleeps
           ELSE IF a.kind = "http" THEN ExceptHTTPError(c, a) ELSE ExceptException(c)
    /\ UNCHANGED attempt
    /\ WorkerUnchanged

\* time.sleep(RETRY_DELAY) returns; continue with the next iteration.
\* When range(MAX_RETRIES) is exhausted the loop ends and the last line
\* returns "Max retries exceeded".
Wake(c) ==
    /\ pc[c] = "sleeping"
    /\ IF attempt[c] + 1 < MAX_RETRIES
       THEN /\ BeginAttempt(c, attempt[c] + 1)
            /\ UNCHANGED result
            /\ PagesUnchanged
       ELSE /\ Return(c, Failure("maxretries", 0))
            /\ RendererUnchanged
            /\ UNCHANGED attempt
    /\ UNCHANGED <<sleeps, resp, finalize_request, everyFinalizeRetryable>>
    /\ WorkerUnchanged

\* ---------------------------------------------------------------- main
\* no file "failed.txt" in the working directory
NoFile == [exists |-> FALSE, lines |-> <<>>]
\* the file after "with open(...) as f" wrote these lines
File(lines) == [exists |-> TRUE, lines |-> lines]

MainUnchanged ==
    UNCHANGED <<root, chapters, service, thread_count, numImages, pc, attempt, dispatched, inflight,
                successful_uploads, s3_urls, page, upload_lock,
                   fail_order, shown, result, starts, sleeps, resp, finalize_request,
                everyFinalizeRetryable>>

\* executor.submit(upload_chapter, ...) for the next chapter of the dict;
\* after the last one main enters the as_completed loop.
Submit ==
    /\ mainpc = "submitting"
    /\ submitted' = submitted + 1
    /\ mainpc' = IF submitted + 1 = total_chapters THEN "collecting" ELSE "submitting"
    /\ UNCHANGED <<consumed, failed_chapters, skipped_chapters, failed_txt,
                   write_failed>>
    /\ RendererUnchanged
    /\ MainUnchanged

\* final_status of one iteration of the as_completed loop
FinalStatus(r) ==
    IF r.skipped THEN "Skipped" ELSE IF r.success THEN "Done" ELSE "Failed"

\* One iteration of "for future in as_completed(futures)" for the finished
\* future of chapter c.  future.result() re-raises an exception that left
\* upload_chapter: main has no handler, the with block waits for the running
\* and queued workers and the exception ends main.
Collect(c) ==
    /\ mainpc = "collecting"
    /\ c \notin consumed
    /\ Finished(c)
    /\ IF result[c].kind = "exception"
       THEN /\ mainpc' = "crashed"
            /\ UNCHANGED <<consumed, failed_chapters, skipped_chapters>>
            /\ RendererUnchanged
       ELSE /\ consumed' = consumed \cup {c}
            /\ skipped_chapters' = IF result[c].skipped
                                   THEN Append(skipped_chapters, c)
                                   ELSE skipped_chapters
            /\ failed_chapters' = IF ~result[c].skipped /\ ~result[c].success
                                  THEN Append(failed_chapters, c)
                                  ELSE failed_chapters
            /\ update_chapter_status(c, FinalStatus(result[c]), FinalProgress)
            /\ UNCHANGED mainpc
    /\ UNCHANGED <<submitted, failed_txt, write_failed>>
    /\ MainUnchanged

\* as_completed is exhausted: the with block ends.
Finish ==
    /\ mainpc = "collecting"
    /\ consumed = Chapters
    /\ mainpc' = "done"
    /\ UNCHANGED <<submitted, consumed, failed_chapters, skipped_chapters,
                   failed_txt, write_failed>>
    /\ RendererUnchanged
    /\ MainUnchanged

\* sorted(failed_chapters, key=natural_sort_key): a stable insertion into the
\* natural-sort order, which is the order of the chapter numbers.
RECURSIVE InsertByKey(_, _)
InsertByKey(x, s) ==
    IF s = <<>> THEN <<x>>
    ELSE IF x < Head(s) THEN <<x>> \o s
    ELSE <<Head(s)>> \o InsertByKey(x, Tail(s))

RECURSIVE sorted(_)
sorted(list) ==
    IF list = <<>> THEN <<>>
    ELSE InsertByKey(list[Len(list)], sorted(SubSeq(list, 1, Len(list) - 1)))

\* The end of main: the summary and, "if failed_chapters", the file
\* failed.txt, one key per line.  open(..., "w") or a write may raise: the
\* except clause prints the error, and the file is what it was (open failed)
\* or holds the lines written so far.
Report ==
    /\ mainpc = "done"
    /\ mainpc' = "exited"
    /\ IF failed_chapters = <<>>
       THEN UNCHANGED <<failed_txt, write_failed>>
       ELSE \/ /\ failed_txt' = File(sorted(failed_chapters))
               /\ write_failed' = FALSE
            \/ /\ write_failed' = TRUE
               /\ \/ UNCHANGED failed_txt
                  \/ \E k \in 0..Len(failed_chapters) :
                         failed_txt' = File(SubSeq(sorted(failed_chapters), 1, k))
    /\ UNCHANGED <<submitted, consumed, failed_chapters, skipped_chapters>>
    /\ RendererUnchanged
    /\ MainUnchanged

\* ------------------------------------------------------- find_chapters
\* File and directory names are sequences of one-character strings.
Digits == {"0", "1", "2", "3", "4", "5", "6", "7", "8", "9"}
Whitespace == {" "}

\* The index after the longest run of characters of the set cs that starts
\* at index i of s (a greedy \d+ or \s*).
RECURSIVE SpanEnd(_, _, _)
SpanEnd(s, i, cs) ==
    IF i <= Len(s) /\ s[i] \in cs THEN SpanEnd(s, i + 1, cs) ELSE i

NoGroup == [none |-> TRUE, text |-> <<>>]
Group(t) == [none |-> FALSE, text |-> t]
NoMatch == [matched |-> FALSE, group0 |-> <<>>, group3 |-> NoGroup]

\* chapter_pattern.match(entry) for ^\d+(\.\d+)?(\s*-\s*(.+))?$ .  Every
\* repetition is greedy; only the \s* before (.+) ever gives a character
\* back, when the name ends in the whitespace after the "-".
chapter_pattern_match(s) ==
    LET d == SpanEnd(s, 1, Digits)
        f == IF d <= Len(s) /\ s[d] = "." THEN SpanEnd(s, d + 1, Digits) ELSE d
        h == IF f > d + 1 THEN f ELSE d
        w == SpanEnd(s, h, Whitespace)
        v == SpanEnd(s, w + 1, Whitespace)
    IN  IF d = 1 THEN NoMatch
        ELSE IF h > Len(s)
        THEN [matched |-> TRUE, group0 |-> s, group3 |-> NoGroup]
        ELSE IF w > Len(s) \/ s[w] # "-" THEN NoMatch
        ELSE IF v <= Len(s)
        THEN [matched |-> TRUE, group0 |-> s,
              group3 |-> Group(SubSeq(s, v, Len(s)))]
        ELSE IF v > w + 1
        THEN [matched |-> TRUE, group0 |-> s,
              group3 |-> Group(SubSeq(s, Len(s), Len(s)))]
        ELSE NoMatch

\* s.split(' - ')[0]: what stands before the first " - " of s, s without one
SplitHead(s) ==
    LET at == {i \in 1..(Len(s) - 2) :
                  s[i] = " " /\ s[i + 1] = "-" /\ s[i + 2] = " "}
    IN  IF at = {} THEN s
        ELSE SubSeq(s, 1, (CHOOSE i \in at : \A j \in at : i <= j) - 1)

\* s.strip()
RECURSIVE strip(_)
strip(s) ==
    IF s = <<>> THEN s
    ELSE IF Head(s) \in Whitespace THEN strip(Tail(s))
    ELSE IF s[Len(s)] \in Whitespace THEN strip(SubSeq(s, 1, Len(s) - 1))
    ELSE s

SUPPORTED_EXTENSIONS ==
    {".jpeg", ".jpg", ".png", ".gif", ".webp", ".bmp", ".tiff", ".heic"}

\* f.suffix.lower(), for the suffixes of FileKinds
lower(suffix) ==
    CASE suffix = ".PNG" -> ".png"
      [] suffix = ".Jpg" -> ".jpg"
      [] OTHER -> suffix

\* Mutant of is_image: the suffix is compared as it is written.
is_image_case_sensitive(f) == f.is_file /\ f.suffix \in SUPPORTED_EXTENSIONS

\* "f.is_file() and f.suffix.lower() in SUPPORTED_EXTENSIONS"
is_image(f) == f.is_file /\ lower(f.suffix) \in SUPPORTED_EXTENSIONS

\* images: the files of a chapter directory that are images, as indices into
\* its listing in path order
RECURSIVE Images(_, _)
Images(files, i) ==
    IF i > Len(files) THEN <<>>
    ELSE IF is_image(files[i]) THEN <<i>> \o Images(files, i + 1)
    ELSE Images(files, i + 1)

NotADirectory == [is_dir |-> FALSE, entries |-> <<>>]
NotScanned == [scanned |-> FALSE, none |-> TRUE, map |-> <<>>]
None == [scanned |-> TRUE, none |-> TRUE, map |-> <<>>]

\* The entry of the dict for a directory entry whose name matched with m.
ChapterEntry(m, files) ==
    [number |-> SplitHead(m.group0),
     title |-> IF m.group3.none THEN NoGroup ELSE Group(strip(m.group3.text)),
     image_paths |-> Images(files, 1)]

\* find_chapters(chapters_dir) on the directory r: None, or the dict.  The
\* order of the dict (dir_entries is natural-sorted) is the numbering of the
\* chapters and no part of this value.
find_chapters(r) ==
    IF ~r.is_dir THEN None
    ELSE LET kept == {e \in DOMAIN r.entries :
                         /\ r.entries[e].is_dir
                         /\ chapter_pattern_match(e).matched
                         /\ Images(r.entries[e].files, 1) # <<>>}
         IN  IF kept = {} THEN None
             ELSE [scanned |-> TRUE, none |-> FALSE,
                   map |-> [e \in kept |->
                              ChapterEntry(chapter_pattern_match(e),
                                           r.entries[e].files)]]

\* One pass of the "while True" of main around find_chapters: a falsy result
\* asks for the path again.
Scan ==
    /\ mainpc = "scanning"
    /\ chapters' = find_chapters(root)
    /\ mainpc' = IF find_chapters(root).none THEN "scanning" ELSE "scanned"
    /\ UNCHANGED <<submitted, consumed, failed_chapters, skipped_chapters,
                   failed_txt, write_failed, root, service>>
    /\ RendererUnchanged
    /\ UNCHANGED <<thread_count, numImages, pc, attempt, dispatched, inflight,
                   successful_uploads, s3_urls, page, upload_lock,
                   fail_order, shown, result, starts, sleeps, resp, finalize_request,
                   everyFinalizeRetryable>>

\* ------------------------------------------------ the run lock by lock
\* What a step of update_chapter_status, _render or upload_image_to_s3
\* leaves alone.
CallUnchanged ==
    /\ UNCHANGED <<pc, attempt, result, sleeps, resp, finalize_request,
                   everyFinalizeRetryable, dispatched, inflight, s3_urls,
                   page_size, fine>>
    /\ WorkerUnchanged

\* Mutant of CanAcquire: self.lock does not make the caller wait.
CanAcquireAnyway(t) == lock # t

\* self.lock can be taken.
CanAcquire(t) == lock = NoThread

\* "with self.lock:" of update_chapter_status and of start
Acquire(t) ==
    /\ upd[t].at \in {"acquire", "start"}
    /\ CanAcquire(t)
    /\ lock' = t
    /\ upd' = [upd EXCEPT ![t].at = IF @ = "start" THEN "render" ELSE "text"]
    /\ UNCHANGED <<status, completed_chapters, view_start_index, shown,
                   successful_uploads, page, upload_lock, fail_order>>
    /\ CallUnchanged

\* self.status[chap_key]["status"] = status
WriteText(t) ==
    /\ upd[t].at = "text"
    /\ status' = [status EXCEPT ![upd[t].c].status = upd[t].text]
    /\ upd' = [upd EXCEPT ![t].at = "progress"]
    /\ UNCHANGED <<completed_chapters, view_start_index, shown, lock,
                   successful_uploads, page, upload_lock, fail_order>>
    /\ CallUnchanged

\* self.status[chap_key]["progress"] = progress, and the count of completed
\* chapters and the window when it is 1.0
WriteProgress(t) ==
    /\ upd[t].at = "progress"
    /\ LET c == upd[t].c
           st == [status EXCEPT ![c].progress = upd[t].progress]
       IN  /\ status' = st
           /\ IF st[c].progress = 1000
              THEN /\ completed_chapters' = completed_chapters + 1
                   /\ view_start_index' = check_and_scroll_view(st, view_start_index)
              ELSE UNCHANGED <<completed_chapters, view_start_index>>
           /\ shown' = IF upd[t].k > 0
                       THEN [shown EXCEPT ![c] = Append(@, upd[t].k)]
                       ELSE shown
    /\ upd' = [upd EXCEPT ![t].at = "render"]
    /\ UNCHANGED <<lock, successful_uploads, page, upload_lock, fail_order>>
    /\ CallUnchanged

\* Mutant of Render: the lock is kept when the call returns.
RenderKeepingLock(t) ==
    /\ upd[t].at = "render"
    /\ upd' = [upd EXCEPT ![t] = Idle]
    /\ UNCHANGED <<lock, status, completed_chapters, view_start_index, shown,
                   successful_uploads, page, upload_lock, fail_order>>
    /\ CallUnchanged

\* self._render() reads the status map; the with block ends.
Render(t) ==
    /\ upd[t].at = "render"
    /\ lock' = NoThread
    /\ upd' = [upd EXCEPT ![t] = Idle]
    /\ UNCHANGED <<status, completed_chapters, view_start_index, shown,
                   successful_uploads, page, upload_lock, fail_order>>
    /\ CallUnchanged

\* What a step of a page task leaves alone besides the renderer.
PageUnchanged ==
    /\ UNCHANGED <<pc, attempt, result, sleeps, resp, finalize_request,
                   everyFinalizeRetryable, s3_urls, shown>>
    /\ WorkerUnchanged

\* A thread of the page pool takes page i, the next task of executor.map.
PageBegin(c, i) ==
    /\ pc[c] = "pages"
    /\ page[c][i].at = "queued"
    /\ \A j \in 1..(i - 1) : page[c][j].at # "queued"
    /\ PagePoolHasFreeThread(c)
    /\ page' = [page EXCEPT ![c][i].at = "running"]
    /\ dispatched' = [dispatched EXCEPT ![c] = @ + 1]
    /\ inflight' = [inflight EXCEPT ![c] = @ + 1]
    /\ UNCHANGED <<successful_uploads, upload_lock, fail_order>>
    /\ RendererUnchanged
    /\ PageUnchanged

\* upload_image_to_s3 of page i returns (False, message).
PageFailed(c, i) ==
    /\ page[c][i].at = "running"
    /\ page' = [page EXCEPT ![c][i].at = "failed"]
    /\ fail_order' = [fail_order EXCEPT ![c] = Append(@, i)]
    /\ inflight' = [inflight EXCEPT ![c] = @ - 1]
    /\ UNCHANGED <<dispatched, successful_uploads, upload_lock>>
    /\ RendererUnchanged
    /\ PageUnchanged

\* requests.put and raise_for_status went through: progress_callback() is
\* called and waits for upload_lock.
PagePut(c, i) ==
    /\ page[c][i].at = "running"
    /\ page' = [page EXCEPT ![c][i].at = "waiting"]
    /\ UNCHANGED <<dispatched, inflight, successful_uploads, upload_lock, fail_order>>
    /\ RendererUnchanged
    /\ PageUnchanged

\* Mutant of CanAcquireCounter: upload_lock does not make the caller wait.
CanAcquireCounterAnyway(c) == upload_lock[c] \in {NoThread} \cup ThreadsOf(numImages)

\* upload_lock of the attempt can be taken.
CanAcquireCounter(c) == upload_lock[c] = NoThread

\* "with upload_lock:" of progress_callback
CallbackAcquire(c, i) ==
    /\ page[c][i].at = "waiting"
    /\ CanAcquireCounter(c)
    /\ upload_lock' = [upload_lock EXCEPT ![c] = PageThread(c, i)]
    /\ page' = [page EXCEPT ![c][i].at = "loading"]
    /\ UNCHANGED <<dispatched, inflight, successful_uploads, fail_order>>
    /\ RendererUnchanged
    /\ PageUnchanged

\* "successful_uploads += 1" reads the counter
CallbackLoad(c, i) ==
    /\ page[c][i].at = "loading"
    /\ page' = [page EXCEPT ![c][i] = [at |-> "storing", k |-> successful_uploads[c]]]
    /\ UNCHANGED <<dispatched, inflight, successful_uploads, upload_lock, fail_order>>
    /\ RendererUnchanged
    /\ PageUnchanged

\* Mutant of CallbackStore: upload_lock is given back before the call of
\* update_chapter_status.
CallbackStoreReleasing(c, i) ==
    /\ page[c][i].at = "storing"
    /\ successful_uploads' = [successful_uploads EXCEPT ![c] = page[c][i].k + 1]
    /\ page' = [page EXCEPT ![c][i].at = "updating"]
    /\ upd' = [upd EXCEPT ![PageThread(c, i)] =
                  Call(c, "Uploading",
                       UploadingProgress(page[c][i].k + 1, numImages[c]),
                       page[c][i].k + 1)]
    /\ upload_lock' = [upload_lock EXCEPT ![c] = NoThread]
    /\ UNCHANGED <<dispatched, inflight, fail_order>>
    /\ UNCHANGED <<status, completed_chapters, view_start_index, page_size, fine, lock>>
    /\ PageUnchanged

\* "successful_uploads += 1" writes the counter; progress_percent; the call
\* ui_renderer.update_chapter_status(... "Uploading (k/N)", progress_percent)
CallbackStore(c, i) ==
    /\ page[c][i].at = "storing"
    /\ successful_uploads' = [successful_uploads EXCEPT ![c] = page[c][i].k + 1]
    /\ page' = [page EXCEPT ![c][i].at = "updating"]
    /\ upd' = [upd EXCEPT ![PageThread(c, i)] =
                  Call(c, "Uploading",
                       UploadingProgress(page[c][i].k + 1, numImages[c]),
                       page[c][i].k + 1)]
    /\ UNCHANGED <<dispatched, inflight, upload_lock, fail_order>>
    /\ UNCHANGED <<status, completed_chapters, view_start_index, page_size, fine, lock>>
    /\ PageUnchanged

\* update_chapter_status has returned: the with block of progress_callback
\* ends and upload_image_to_s3 returns (True, "").
CallbackRelease(c, i) ==
    /\ page[c][i].at = "updating"
    /\ upd[PageThread(c, i)] = Idle
    /\ upload_lock' = [upload_lock EXCEPT ![c] = NoThread]
    /\ page' = [page EXCEPT ![c][i].at = "ok"]
    /\ inflight' = [inflight EXCEPT ![c] = @ - 1]
    /\ UNCHANGED <<dispatched, successful_uploads, fail_order>>
    /\ RendererUnchanged
    /\ PageUnchanged

\* ------------------------------------------------------ specifications
\* The state after UIRenderer(sorted_keys) and renderer.start(), for the
\* scanned chapters with image counts n and the pool width w.
\* The run in steps of whole calls: no call of update_chapter_status is ever
\* under way.
Coarse(n) ==
    /\ fine = FALSE
    /\ upd = [t \in ThreadsOf(n) |-> Idle]

InitEngine(n, w) ==
    /\ numImages = n
    /\ thread_count = w
    /\ submitted = 0
    /\ consumed = {}
    /\ failed_chapters = <<>>
    /\ skipped_chapters = <<>>
    /\ failed_txt = NoFile
    /\ write_failed = FALSE
    /\ pc = [c \in DOMAIN n |-> "queued"]
    /\ attempt = [c \in DOMAIN n |-> 0]
    /\ dispatched = [c \in DOMAIN n |-> 0]
    /\ inflight = [c \in DOMAIN n |-> 0]
    /\ successful_uploads = [c \in DOMAIN n |-> 0]
    /\ s3_urls = [c \in DOMAIN n |-> NoUrls]
    /\ lock = NoThread
    /\ page = [c \in DOMAIN n |-> [i \in 1..n[c] |-> Queued]]
    /\ upload_lock = [c \in DOMAIN n |-> NoThread]
    /\ fail_order = [c \in DOMAIN n |-> <<>>]
    /\ shown = [c \in DOMAIN n |-> <<>>]
    /\ finalize_request = [c \in DOMAIN n |-> NoRequest]
    /\ result = [c \in DOMAIN n |-> NoResult]
    /\ status = [c \in DOMAIN n |-> [status |-> "Queued", progress |-> 0]]
    /\ completed_chapters = 0
    /\ view_start_index = 0
    /\ starts = [c \in DOMAIN n |-> 0]
    /\ sleeps = [c \in DOMAIN n |-> 0]
    /\ resp = [c \in DOMAIN n |-> NoResp]
    /\ everyFinalizeRetryable = [c \in DOMAIN n |-> TRUE]

\* A directory that find_chapters turns into chapters with image counts n:
\* chapter c is the folder named by the digit c and holds n[c] .jpg files.
DigitOf == <<"1", "2", "3", "4", "5", "6", "7", "8", "9">>
RootOf(n) ==
    [is_dir |-> TRUE,
     entries |-> [e \in {<<DigitOf[c]>> : c \in DOMAIN n} |->
                    [is_dir |-> TRUE,
                     files |-> [i \in 1..n[CHOOSE c \in DOMAIN n : e = <<DigitOf[c]>>]
                                  |-> [suffix |-> ".jpg", is_file |-> TRUE]]]]]

InitWith(n, w) ==
    /\ root = RootOf(n)
    /\ chapters = find_chapters(RootOf(n))
    /\ mainpc = "submitting"
    /\ page_size = InitialPageSize
    /\ service = Answers
    /\ Coarse(n)
    /\ InitEngine(n, w)

Init ==
    \E n \in [1..NumChapters -> 1..MaxPages] :
    \E w \in 1..Min(MaxThreads, ThreadCountLimit) :
        InitWith(n, w)

Next ==
    \/ Submit
    \/ Finish
    \/ Report
    \/ \E c \in Chapters : Start(c)
    \/ \E c \in Chapters : Presign(c)
    \/ \E c \in Chapters : PageStart(c)
    \/ \E c \in Chapters : PageSucceed(c)
    \/ \E c \in Chapters : PageFail(c)
    \/ \E c \in Chapters : PagesDone(c)
    \/ \E c \in Chapters : Finalize(c)
    \/ \E c \in Chapters : Wake(c)
    \/ \E c \in Chapters : Collect(c)

Spec == Init /\ [][Next]_vars

\* Two chapters on one chapter thread, the first with more images than the
\* page pool has threads.
InitPool == InitWith([c \in 1..2 |-> IF c = 1 THEN PoolPages ELSE 1], 1)

SpecPool == InitPool /\ [][Next]_vars

\* The run with a status window shorter than the list of chapters: one-page
\* chapters on one chapter thread, recorded by main in any order, with a
\* service that answers every request with success or with HTTP 500.
TwoAnswers ==
    {[kind |-> "ok", code |-> 200, body |-> "json"],
     [kind |-> "http", code |-> 500, body |-> "plain"]}
InitView ==
    \E p \in 1..MaxPageSize :
        /\ root = RootOf([c \in 1..ViewChapters |-> 1])
        /\ chapters = find_chapters(root)
        /\ mainpc = "submitting"
        /\ page_size = p
        /\ service = TwoAnswers
        /\ Coarse([c \in 1..ViewChapters |-> 1])
        /\ InitEngine([c \in 1..ViewChapters |-> 1], 1)

SpecView == InitView /\ [][Next]_vars

\* The run lock by lock: two chapters on two chapter threads, the first with
\* ThreadPages pages, from the call of renderer.start() on, with a service
\* that answers every request with success or with HTTP 500.  A thread goes
\* on in its code when its call of update_chapter_status has returned.
ThreadsImages == [c \in 1..2 |-> IF c = 1 THEN ThreadPages ELSE 1]
InitThreads ==
    /\ root = RootOf(ThreadsImages)
    /\ chapters = find_chapters(root)
    /\ mainpc = "submitting"
    /\ page_size = InitialPageSize
    /\ service = TwoAnswers
    /\ fine = TRUE
    /\ upd = [t \in ThreadsOf(ThreadsImages) |-> IF t = Main THEN StartCall ELSE Idle]
    /\ InitEngine(ThreadsImages, 2)

Threads == ThreadsOf(numImages)
Pages(c) == DOMAIN page[c]

NextThreads ==
    \/ upd[Main] = Idle /\ Submit
    \/ upd[Main] = Idle /\ Finish
    \/ upd[Main] = Idle /\ Report
    \/ \E c \in Chapters : upd[Main] = Idle /\ Collect(c)
    \/ \E c \in Chapters : Start(c)
    \/ \E c \in Chapters : upd[Worker(c)] = Idle /\ Presign(c)
    \/ \E c \in Chapters : upd[Worker(c)] = Idle /\ PagesDone(c)
    \/ \E c \in Chapters : upd[Worker(c)] = Idle /\ Finalize(c)
    \/ \E c \in Chapters : upd[Worker(c)] = Idle /\ Wake(c)
    \/ \E t \in Threads : Acquire(t)
    \/ \E t \in Threads : WriteText(t)
    \/ \E t \in Threads : WriteProgress(t)
    \/ \E t \in Threads : Render(t)
    \/ \E c \in Chapters : \E i \in Pages(c) : PageBegin(c, i)
    \/ \E c \in Chapters : \E i \in Pages(c) : PageFailed(c, i)
    \/ \E c \in Chapters : \E i \in Pages(c) : PagePut(c, i)
    \/ \E c \in Chapters : \E i \in Pages(c) : CallbackAcquire(c, i)
    \/ \E c \in Chapters : \E i \in Pages(c) : CallbackLoad(c, i)
    \/ \E c \in Chapters : \E i \in Pages(c) : CallbackStore(c, i)
    \/ \E c \in Chapters : \E i \in Pages(c) : CallbackRelease(c, i)

SpecThreads == InitThreads /\ [][NextThreads]_vars

\* A thread that can take a step takes one: the scheduler runs every thread
\* that is not blocked, and every remote call returns.
SpecThreadsFair == SpecThreads /\ WF_vars(NextThreads)

\* The scan alone, on small directories: one entry with any name over
\* Alphabet, a directory or not, with any files of FileKinds, alone or next to
\* a valid chapter; the empty directory; a path that is no directory; and the
\* directory of the example.
Alphabet == {"1", ".", " ", "-", "a"}
NamesUpTo(k) == UNION {[1..m -> Alphabet] : m \in 1..k}
FileKinds ==
    {[suffix |-> ".jpg", is_file |-> TRUE], [suffix |-> ".PNG", is_file |-> TRUE],
     [suffix |-> ".txt", is_file |-> TRUE], [suffix |-> ".jpg", is_file |-> FALSE]}
FileLists == UNION {[1..m -> FileKinds] : m \in 0..MaxFiles}
JpgFiles(k) == [i \in 1..k |-> [suffix |-> ".jpg", is_file |-> TRUE]]
ValidChapter == <<"2">> :> [is_dir |-> TRUE, files |-> JpgFiles(1)]
EmptyDirectory == [is_dir |-> TRUE, entries |-> <<>>]
ExampleRoot ==
    [is_dir |-> TRUE,
     entries |->
        (<<"1", " ", "-", " ", "I", "n", "t", "r", "o">>
            :> [is_dir |-> TRUE, files |-> JpgFiles(3)])
        @@ (<<"2">> :> [is_dir |-> TRUE, files |-> JpgFiles(2)])
        @@ (<<"2", ".", "5">>
            :> [is_dir |-> TRUE, files |-> <<[suffix |-> ".txt", is_file |-> TRUE]>>])
        @@ (<<"n", "o", "t", "e", "s">> :> [is_dir |-> TRUE, files |-> JpgFiles(1)])]
ScanRoots ==
    {[is_dir |-> TRUE, entries |-> (nm :> [is_dir |-> d, files |-> fl]) @@ other] :
        nm \in NamesUpTo(ScanNameLen), d \in BOOLEAN, fl \in FileLists,
        other \in {<<>>, ValidChapter}}
    \cup {NotADirectory, EmptyDirectory, ExampleRoot}

InitScanOf(r) ==
    /\ root = r
    /\ chapters = NotScanned
    /\ mainpc = "scanning"
    /\ page_size = InitialPageSize
    /\ service = Answers
    /\ Coarse(<<>>)
    /\ InitEngine(<<>>, 1)

InitScan == \E r \in ScanRoots : InitScanOf(r)
NextScan == Scan
SpecScan == InitScan /\ [][NextScan]_vars

\* The scan of a directory holding one chapter folder, for every name over
\* Alphabet and the names of the examples.
ExampleNames == {<<"1", "2", " ", "-", " ", "F", "i", "n", "a", "l", "e">>, <<"7">>}
NameRoots ==
    {[is_dir |-> TRUE, entries |-> nm :> [is_dir |-> TRUE, files |-> JpgFiles(1)]] :
        nm \in NamesUpTo(MaxNameLen) \cup ExampleNames}
InitNames == \E r \in NameRoots : InitScanOf(r)
SpecNames == InitNames /\ [][NextScan]_vars

\* ============================================================== claims
RetryTexts == {"ServerErrorRetrying", "NetworkErrorRetrying"}
InProgress(c) == status[c].status \in InProgressTexts
Failed(r) == r.kind = "value" /\ ~r.success /\ ~r.skipped
InList(c, list) == \E i \in 1..Len(list) : list[i] = c

\* C1 (as stated): over the whole run, retried attempts included, no update
\* of a chapter's status writes a progress below the one it replaces.
C1_ProgressNeverDecreases ==
    [][\A c \in Chapters : status'[c].progress >= status[c].progress]_vars

\* C1 (amended): an update lowers a chapter's progress only when it announces
\* a retry ("Server Error ... Retrying", "Network Error... Retrying"), and then
\* to 0; the update main makes when it records the chapter's outcome writes
\* exactly 1.0, and from then on the chapter's status is never written again.
C1_ProgressResetsOnlyOnRetry ==
    [][\A c \in Chapters :
        /\ status'[c].progress < status[c].progress =>
              /\ status'[c].progress = 0
              /\ status'[c].status \in RetryTexts
              /\ AttemptsRemain(attempt[c])
        /\ (c \in consumed' /\ c \notin consumed) => status'[c].progress = 1000
        /\ status[c].progress = 1000 => status'[c] = status[c]]_vars

\* C1 witness: a chapter whose finalize failed is waiting to retry, its
\* progress back at 0 after the 0.95 of "Finalizing...".
C1_Witness ==
    \E c \in Chapters :
        /\ pc[c] = "sleeping"
        /\ resp[c].op = "finalize"
        /\ status[c].progress = 0

\* C2 (as stated): in every state a chapter's progress is 1.0 exactly when its
\* upload_chapter call has returned a terminal outcome.
C2_FullIffTerminal ==
    \A c \in Chapters : (status[c].progress = 1000) <=> (pc[c] = "returned")

\* C2 (amended): a chapter's progress is 1.0 exactly when main has recorded
\* its outcome, which happens only after its worker has returned one, and the
\* status then reads Done, Skipped or Failed according to that outcome; while
\* the worker runs, and from its return until main records it, progress is
\* below 1.0.
C2_FullIffRecorded ==
    \A c \in Chapters :
        /\ (status[c].progress = 1000) <=> (c \in consumed)
        /\ c \in consumed =>
              /\ pc[c] = "returned"
              /\ result[c].skipped => status[c].status = "Skipped"
              /\ (result[c].success /\ ~result[c].skipped) => status[c].status = "Done"
              /\ ~result[c].success => status[c].status = "Failed"
        /\ c \notin consumed => status[c].status \notin TerminalTexts

\* C2 witness: a worker has returned Failed after all its pages went up, and
\* main has recorded it.
C2_Witness ==
    \E c \in Chapters :
        /\ c \in consumed
        /\ Failed(result[c])
        /\ resp[c].op = "finalize"
        /\ status[c] = [status |-> "Failed", progress |-> 1000]

\* C3 (as stated): whatever the remote service answers, no error leaves
\* upload_chapter and none reaches the as_completed loop of main.
C3_NoErrorEscapes ==
    /\ \A c \in Chapters : result[c].kind # "exception"
    /\ mainpc # "crashed"

\* C4 (as stated): a chapter whose call has ended and whose every attempt
\* ended with a retryable status at finalize made exactly MAX_RETRIES attempts
\* and waited between consecutive ones only; no chapter makes more than
\* MAX_RETRIES.  An answer carrying the "Chapter already exists" message is
\* left to C6, which gives it precedence over the status code.
C4_RetryableFinalizeExhaustsAttempts ==
    \A c \in Chapters :
        /\ attempt[c] < MAX_RETRIES
        /\ (Finished(c) /\ everyFinalizeRetryable[c] /\ resp[c].body # "dup") =>
              /\ attempt[c] + 1 = MAX_RETRIES
              /\ sleeps[c] = MAX_RETRIES - 1

\* The last answer chapter c got is a transient error: a retryable status
\* without the duplicate message, or a transport-level exception.
LastAnswerTransient(c) ==
    \/ /\ resp[c].kind = "http"
       /\ resp[c].code \in RETRYABLE_STATUSES
       /\ resp[c].body # "dup"
    \/ resp[c].kind = "neterr"

\* C5 (as stated): a chapter whose last allowed attempt ended in a transient
\* error is Failed with the "Max retries exceeded" message.
C5_MaxRetriesMessage ==
    \A c \in Chapters :
        (Finished(c) /\ attempt[c] = MAX_RETRIES - 1 /\ LastAnswerTransient(c)) =>
            result[c] = Failure("maxretries", 0)

\* C6: once finalize has answered with the "Chapter already exists" message,
\* under any status code, the chapter has returned success=True, skipped=True
\* in that attempt, has waited no retry delay for it, is never in
\* failed_chapters, is recorded by main as Skipped, and starts no attempt
\* afterwards.
C6_DuplicateIsSkipped ==
    /\ [](\A c \in Chapters :
            (resp[c].op = "finalize" /\ resp[c].kind = "http" /\ resp[c].body = "dup") =>
                /\ pc[c] = "returned"
                /\ result[c].kind = "value" /\ result[c].success /\ result[c].skipped
                /\ sleeps[c] = attempt[c]
                /\ ~InList(c, failed_chapters)
                /\ c \in consumed =>
                      /\ InList(c, skipped_chapters)
                      /\ status[c].status = "Skipped")
    /\ [][\A c \in Chapters :
            pc[c] = "returned" =>
                /\ pc'[c] = pc[c] /\ attempt'[c] = attempt[c]
                /\ sleeps'[c] = sleeps[c] /\ result'[c] = result[c]]_vars

\* C6 witness: main has recorded as Skipped a chapter whose first finalize
\* answered 500 with the duplicate message.
C6_Witness ==
    \E c \in Chapters :
        /\ resp[c] = [op |-> "finalize", kind |-> "http", code |-> 500, body |-> "dup"]
        /\ attempt[c] = 0
        /\ c \in consumed

\* C7 (as stated): a chapter ends Failed from a page failure only on its last
\* attempt; on an earlier attempt it retries.
C7_PageFailureRetried ==
    \A c \in Chapters :
        (pc[c] = "returned" /\ result[c].error.class = "page") =>
            attempt[c] = MAX_RETRIES - 1

\* C8 (as stated): after an HTTP error answer whose status is not retryable
\* and whose body does not indicate a duplicate, the chapter has returned
\* Failed in that attempt, having waited no retry delay for it.
C8_PermanentErrorFails ==
    \A c \in Chapters :
        (resp[c].kind = "http" /\ resp[c].code \notin RETRYABLE_STATUSES
            /\ resp[c].body # "dup") =>
                /\ pc[c] = "returned"
                /\ Failed(result[c])
                /\ sleeps[c] = attempt[c]

\* C9 (as stated): at most thread_count chapters hold an in-progress status,
\* one that is neither "Queued" nor Done, Skipped or Failed.
C9_InProgressAtMostWidth ==
    Cardinality({c \in Chapters : InProgress(c)}) <= thread_count

\* C9 (amended): at most thread_count chapters hold an in-progress status
\* while their worker is still running; a chapter whose worker has ended
\* keeps its last in-progress status until main records the outcome, so the
\* in-progress statuses number at most thread_count plus the ended chapters
\* main has not recorded.
C9_RunningInProgressAtMostWidth ==
    /\ Cardinality({c \in Chapters : InProgress(c) /\ ~Finished(c)}) <= thread_count
    /\ Cardinality({c \in Chapters : InProgress(c)}) <=
          thread_count + Cardinality({c \in Chapters : Finished(c) /\ c \notin consumed})
    /\ \A c \in Chapters : Active(c) => InProgress(c)

\* C9 witness: the pool is full and one more chapter, whose worker has
\* returned, still shows an in-progress status.
C9_Witness ==
    /\ Cardinality({c \in Chapters : Active(c)}) = thread_count
    /\ \E c \in Chapters : pc[c] = "returned" /\ c \notin consumed /\ InProgress(c)

\* C10: no chapter is given to more than one upload_chapter execution and
\* every one has been given to one when main is done, at most thread_count
\* executions are active, and at most 8 page uploads of one attempt are in
\* flight.
C10_BoundedParallelism ==
    /\ \A c \in Chapters : starts[c] <= 1
    /\ \A c \in Chapters : (pc[c] # "queued") => starts[c] = 1
    /\ mainpc = "done" => \A c \in Chapters : starts[c] = 1
    /\ Cardinality({c \in Chapters : Active(c)}) <= thread_count
    /\ \A c \in Chapters : inflight[c] <= PageWorkers

\* C10 witness: eight page uploads in flight with a ninth page waiting, while
\* the only chapter thread is taken and another chapter is queued.
C10_Witness ==
    \E c, d \in Chapters :
        /\ inflight[c] = PageWorkers
        /\ dispatched[c] < numImages[c]
        /\ pc[d] = "queued" /\ d <= submitted
        /\ Cardinality({e \in Chapters : Active(e)}) = thread_count

\* C11: once every worker has finished and main has ended, every chapter key
\* is in exactly one of the sets succeeded, skipped and failed, the one of its
\* outcome; and unless the write failed, failed.txt lists exactly the failed
\* keys, each once, in natural-sort order (no file stands for no line).
RunEnded == mainpc \in {"exited", "crashed"} /\ \A c \in Chapters : Finished(c)
InSucceeded(c) ==
    c \in consumed /\ ~InList(c, failed_chapters) /\ ~InList(c, skipped_chapters)
C11_PartitionAndFailedFile ==
    RunEnded =>
        /\ \A c \in Chapters :
              /\ InSucceeded(c) <=> (result[c] = Success)
              /\ InList(c, skipped_chapters) <=> (result[c] = Skipped)
              /\ InList(c, failed_chapters) <=> Failed(result[c])
              /\ InSucceeded(c) \/ InList(c, skipped_chapters)
                    \/ InList(c, failed_chapters)
              /\ ~(InList(c, skipped_chapters) /\ InList(c, failed_chapters))
        /\ ~write_failed =>
              /\ \A c \in Chapters :
                    Failed(result[c]) <=>
                        Cardinality({i \in 1..Len(failed_txt.lines) :
                                        failed_txt.lines[i] = c}) = 1
              /\ \A i \in 1..Len(failed_txt.lines) : failed_txt.lines[i] \in Chapters
              /\ \A i, j \in 1..Len(failed_txt.lines) :
                    i < j => failed_txt.lines[i] < failed_txt.lines[j]

\* The names of the chapter pattern, as a language: digits, an optional
\* fraction, and optionally whitespace, "-" and a non-empty rest.
AllIn(s, from, to, cs) == \A i \in from..to : s[i] \in cs
IsNumber(s, h) ==
    \E d \in 1..h :
        /\ AllIn(s, 1, d, Digits)
        /\ d = h \/ (s[d + 1] = "." /\ d + 2 <= h /\ AllIn(s, d + 2, h, Digits))
InPattern(s) ==
    \E h \in 1..Len(s) :
        /\ IsNumber(s, h)
        /\ h = Len(s) \/ \E p \in (h + 1)..(Len(s) - 1) :
                            AllIn(s, h + 1, p - 1, Whitespace) /\ s[p] = "-"
SupportedAnyCase == SUPPORTED_EXTENSIONS \cup {".PNG", ".Jpg"}
SupportedFiles(files) ==
    {i \in 1..Len(files) : files[i].is_file /\ files[i].suffix \in SupportedAnyCase}
Qualifying ==
    IF root.is_dir
    THEN {e \in DOMAIN root.entries :
             /\ root.entries[e].is_dir
             /\ InPattern(e)
             /\ SupportedFiles(root.entries[e].files) # {}}
    ELSE {}
ExampleResult ==
    (<<"1", " ", "-", " ", "I", "n", "t", "r", "o">>
        :> [number |-> <<"1">>, title |-> Group(<<"I", "n", "t", "r", "o">>),
            image_paths |-> <<1, 2, 3>>])
    @@ (<<"2">> :> [number |-> <<"2">>, title |-> NoGroup, image_paths |-> <<1, 2>>])

\* C12: find_chapters returns exactly the entries that are directories, carry
\* a name of the chapter pattern and hold at least one file with a supported
\* extension, each with all its supported files as pages; it returns None
\* exactly when the root is no directory or no entry qualifies; and the
\* directory of the example gives the mapping of the example.
C12_ScanResult ==
    chapters.scanned =>
        /\ chapters.none <=> (~root.is_dir \/ Qualifying = {})
        /\ ~chapters.none =>
              /\ DOMAIN chapters.map = Qualifying
              /\ \A e \in Qualifying :
                    Len(chapters.map[e].image_paths)
                        = Cardinality(SupportedFiles(root.entries[e].files))
        /\ root = ExampleRoot => ~chapters.none /\ chapters.map = ExampleResult

\* C12 witness: the scan returned a mapping although a directory with a
\* chapter name was left out for holding no supported image.
C12_Witness ==
    /\ chapters.scanned /\ ~chapters.none
    /\ \E e \in DOMAIN root.entries :
          /\ root.entries[e].is_dir /\ InPattern(e)
          /\ e \notin DOMAIN chapters.map

\* The numeric head of a name of the pattern, and the text after its
\* separator without the whitespace around it.
HeadEnd(s) == CHOOSE h \in 1..Len(s) : IsNumber(s, h) /\ \A k \in (h + 1)..Len(s) : ~IsNumber(s, k)
NumericHead(s) == SubSeq(s, 1, HeadEnd(s))
TrimmedText(t) ==
    LET ns == {i \in 1..Len(t) : t[i] \notin Whitespace}
    IN  IF ns = {} THEN <<>>
        ELSE SubSeq(t, CHOOSE i \in ns : \A j \in ns : i <= j,
                       CHOOSE i \in ns : \A j \in ns : j <= i)
TitleAfterSeparator(s) ==
    IF HeadEnd(s) = Len(s) THEN NoGroup
    ELSE LET dashes == {p \in (HeadEnd(s) + 1)..Len(s) : s[p] = "-"}
             p == CHOOSE i \in dashes : \A j \in dashes : i <= j
         IN  Group(TrimmedText(SubSeq(s, p + 1, Len(s))))

\* C13: for every chapter of the mapping, whatever the whitespace around the
\* "-" of its name, the recorded number is the numeric head of the name and
\* the recorded title is the trimmed text after the separator, None without
\* a separator.
C13_NumberAndTitle ==
    (chapters.scanned /\ ~chapters.none) =>
        \A e \in DOMAIN chapters.map :
            /\ chapters.map[e].number = NumericHead(e)
            /\ chapters.map[e].title = TitleAfterSeparator(e)

Incomplete == {i \in 0..(total_chapters - 1) : status[i + 1].progress < 1000}
EarliestIncompleteVisible ==
    Incomplete # {} =>
        \E e \in Incomplete :
            /\ \A j \in Incomplete : e <= j
            /\ view_start_index <= e
            /\ e < view_start_index + page_size
MovesOnlyWhenVisibleComplete ==
    view_start_index' # view_start_index =>
        \A i \in 0..(total_chapters - 1) :
            (view_start_index <= i /\ i < view_start_index + page_size) =>
                status'[i + 1].progress = 1000
C19_WindowShowsEarliestIncomplete ==
    []EarliestIncompleteVisible /\ [][MovesOnlyWhenVisibleComplete]_vars

\* C19 witness: the window has moved past completed chapters and a chapter
\* recorded out of order lies behind an incomplete one.
C19_Witness ==
    /\ view_start_index > 0
    /\ \E i \in Incomplete : \E j \in 0..(total_chapters - 1) :
          i < j /\ status[j + 1].progress = 1000

\* C15 (as stated): when pages of an attempt fail, the error reported for the
\* chapter is the error of the page that failed first in time.
C15_ErrorOfEarliestFailure ==
    \A c \in Chapters :
        (result[c].error.class = "page" /\ fail_order[c] # <<>>) =>
            result[c].error.code = Head(fail_order[c])

\* C15 (amended): upload_chapter returns the page failure only when every
\* page task of the attempt has ended, and the error it reports is the one
\* of the failed page that comes first in the order of the pages, whatever
\* the order in which the pages failed.
FailedPages(c) == {i \in DOMAIN page[c] : page[c][i].at = "failed"}
C15_ErrorOfFirstFailedPage ==
    [][\A c \in DOMAIN ThreadsImages :
          (result'[c] # result[c] /\ result'[c].error.class = "page") =>
              /\ \A i \in DOMAIN page[c] : page[c][i].at \in {"ok", "failed"}
              /\ result'[c].error.code \in FailedPages(c)
              /\ \A i \in FailedPages(c) : result'[c].error.code <= i]_vars

\* C15 witness: two pages failed, the later page of the list first, and the
\* chapter failed with the error of the earlier page.
C15_Witness ==
    \E c \in Chapters :
        /\ result[c].error.class = "page"
        /\ Len(fail_order[c]) = 2
        /\ fail_order[c][1] > fail_order[c][2]
        /\ result[c].error.code = fail_order[c][2]

\* C16: in every attempt the counter equals the number of pages whose
\* progress_callback has counted (none twice, none lost), a failed page never
\* enters progress_callback, the "Uploading (k/N)" updates are written to the
\* status map with k = 1, 2, ... in this order, at most one per counted page
\* and one for every page that has returned success, and such an update
\* leaves the progress 0.1 + 0.8 * k / N.
Counted(c) == {i \in DOMAIN page[c] : page[c][i].at \in {"updating", "ok"}}
C16_CallbackOncePerPageInOrder ==
    \A c \in Chapters :
        /\ successful_uploads[c] = Cardinality(Counted(c))
        /\ \A i \in DOMAIN page[c] :
              page[c][i].at = "failed" =>
                  /\ page[c][i].k = 0
                  /\ upd[PageThread(c, i)] = Idle
                  /\ upload_lock[c] # PageThread(c, i)
        /\ \A j \in 1..Len(shown[c]) : shown[c][j] = j
        /\ pc[c] = "pages" =>
              /\ Len(shown[c]) <= successful_uploads[c]
              /\ Cardinality({i \in DOMAIN page[c] : page[c][i].at = "ok"})
                    <= Len(shown[c])
        /\ (/\ status[c].status = "Uploading"
            /\ shown[c] # <<>>
            /\ \A t \in Threads : ~(upd[t].c = c /\ upd[t].at = "progress")) =>
              status[c].progress
                  = UploadingProgress(shown[c][Len(shown[c])], numImages[c])

\* C16 witness: two pages went through at the same time; the callback of the
\* second page has written "Uploading (1/N)" while the first page waits for
\* upload_lock.
C16_Witness ==
    \E c \in Chapters :
        /\ Cardinality(DOMAIN page[c]) >= 2
        /\ page[c][1].at = "waiting"
        /\ page[c][2].at = "updating"
        /\ shown[c] = <<1>>

\* C17: a thread that is writing or rendering the status map holds self.lock,
\* no two threads are inside update_chapter_status or _render at once (so a
\* render never sees an entry whose text is written and whose progress is
\* not), and the status map changes only in a step of the lock's holder.
InsideLock(t) == upd[t].at \in {"text", "progress", "render"}
C17_StatusMapUnderLock ==
    /\ [](\A t \in ThreadsOf(ThreadsImages) :
            InsideLock(t) =>
                /\ lock = t
                /\ \A u \in ThreadsOf(ThreadsImages) \ {t} :
                      ~InsideLock(u))
    /\ [][<<status, completed_chapters, view_start_index>>'
              # <<status, completed_chapters, view_start_index>>
            => lock # NoThread /\ InsideLock(lock)]_vars

\* C17 witness: an update of a page thread has written the text of an entry
\* and not yet its progress while main waits for self.lock with the final
\* update of the other chapter.
C17_Witness ==
    \E c \in Chapters : \E i \in Pages(c) :
        /\ upd[PageThread(c, i)].at = "progress"
        /\ upd[Main].at = "acquire"

\* C18 (as stated): no thread holds more than one of self.lock and the
\* upload_lock objects at any time.
LocksHeld(t) ==
    (IF lock = t THEN 1 ELSE 0) + Cardinality({c \in Chapters : upload_lock[c] = t})
C18_AtMostOneLock == \A t \in Threads : LocksHeld(t) <= 1

\* C18 (amended): main and the chapter workers hold at most self.lock and never
\* an upload_lock; a page thread holds at most the upload_lock of its own
\* attempt and, only while it holds that one, self.lock.
C18_NestedOnlyInCallback ==
    /\ \A c \in Chapters :
          upload_lock[c] \in {NoThread} \cup {PageThread(c, i) : i \in Pages(c)}
    /\ \A c \in Chapters : \A i \in Pages(c) :
          lock = PageThread(c, i) => upload_lock[c] = PageThread(c, i)

\* C18 witness: a page thread holds upload_lock and self.lock together.
C18_Witness ==
    \E c \in Chapters : \E i \in Pages(c) :
        lock = PageThread(c, i) /\ upload_lock[c] = PageThread(c, i)

\* C20: a thread that waits for upload_lock does not hold self.lock, and
\* takes upload_lock without holding self.lock (the only order of taking both
\* is upload_lock, then self.lock); and every thread that waits for self.lock
\* or for upload_lock gets it: a waiting thread stops waiting only by taking
\* the lock, and from some point on no thread waits any more.
WaitsForLock(t) == upd[t].at \in {"acquire", "start"}
WaitsForCounter(c, i) == page[c][i].at = "waiting"
C20_NoDeadlock ==
    /\ [](\A c \in DOMAIN ThreadsImages : \A i \in 1..ThreadsImages[c] :
            WaitsForCounter(c, i) =>
                lock # PageThread(c, i) /\ ~InsideLock(PageThread(c, i)))
    /\ [][\A c \in DOMAIN ThreadsImages :
            upload_lock'[c] \notin {upload_lock[c], NoThread}
                => lock # upload_lock'[c]]_vars
    /\ [][/\ \A t \in ThreadsOf(ThreadsImages) :
               (WaitsForLock(t) /\ ~WaitsForLock(t)') => lock' = t
           /\ \A c \in DOMAIN ThreadsImages : \A i \in 1..ThreadsImages[c] :
               (WaitsForCounter(c, i) /\ ~WaitsForCounter(c, i)')
                   => upload_lock'[c] = PageThread(c, i)]_vars
    /\ <>[](/\ \A t \in ThreadsOf(ThreadsImages) : ~WaitsForLock(t)
            /\ \A c \in DOMAIN ThreadsImages : \A i \in 1..ThreadsImages[c] :
                  ~WaitsForCounter(c, i))

\* C20 witness: a page thread waits for the upload_lock held by another page
\* thread, which in turn waits for self.lock, held by a third thread.
C20_Witness ==
    \E c \in Chapters : \E i, j \in Pages(c) :
        /\ WaitsForCounter(c, i)
        /\ upload_lock[c] = PageThread(c, j)
        /\ WaitsForLock(PageThread(c, j))
        /\ lock \notin {NoThread, PageThread(c, j)}

\* ------------------------------------------------------------------ C21
\* The chapters whose progress in the status map is exactly 1.0.
FullChapters == {c \in Chapters : status[c].progress = 1000}

\* Whenever self.lock is free, completed_chapters is the number of chapters
\* at 1.0.
CountsFullChapters ==
    lock = NoThread => completed_chapters = Cardinality(FullChapters)

\* A step that changes completed_chapters adds one, and it is the step that
\* takes exactly one chapter from below 1.0 to 1.0; no chapter ever leaves 1.0.
CountedOncePerChapter ==
    [][/\ completed_chapters' # completed_chapters =>
            /\ completed_chapters' = completed_chapters + 1
            /\ \E c \in Chapters : FullChapters' = FullChapters \cup {c}
                                   /\ c \notin FullChapters
       /\ FullChapters \subseteq FullChapters']_vars

\* When main has ended normally every chapter has been counted.
AllCountedAtExit == mainpc = "exited" => completed_chapters = total_chapters

\* C21: whenever the tracker lock is free, completed_chapters equals the
\* number of chapters whose progress is exactly 1.0; it never exceeds
\* total_chapters, and when the run has ended (main has ended and every
\* worker has finished) it equals total_chapters.
C21_CompletedCountsFullChapters ==
    /\ CountsFullChapters
    /\ completed_chapters <= total_chapters
    /\ RunEnded => completed_chapters = total_chapters
====
